---------------------------- MODULE Spec2Model ----------------------------
(***************************************************************************)
(* A model of pglocker (src/pglocker.go): a named advisory lock held on a  *)
(* dedicated database session for as long as the caller's context lives.   *)
(*                                                                         *)
(* Each element of Calls is one invocation of Lock.  The database (the     *)
(* advisory-lock service and the sessions) is the environment: it grants   *)
(* an identifier to at most one live session, frees it on unlock and when  *)
(* the owning session ends, and may fail any request.                      *)
(***************************************************************************)
EXTENDS Integers, Sequences, FiniteSets, TLC

(***************************************************************************)
(* Bounds of the model.                                                    *)
(***************************************************************************)
\* number of Lock invocations
NumCalls == 2
\* the time a blocking claim request is followed for
MaxTime == 2
\* WithTimeout values range over 0..MaxTimeout
MaxTimeout == 1
\* how many times a caller receives from its signal
MaxRecv == 2

Calls == 1..NumCalls

(***************************************************************************)
(* Lock names, as byte strings.  "plumless" and "buckeroo" have the same   *)
(* CRC-32 checksum.                                                        *)
(***************************************************************************)
plumless == <<112, 108, 117, 109, 108, 101, 115, 115>>
buckeroo == <<98, 117, 99, 107, 101, 114, 111, 111>>
lockname == <<108, 111, 99, 107>>
Names == {plumless, buckeroo, lockname}

(***************************************************************************)
(* hash/crc32.ChecksumIEEE.  A uint32 is the pair <<hi, lo>> of its two    *)
(* 16-bit halves, so that every number stays below 2^16.                   *)
(***************************************************************************)
Half == 65536

\* bit i of a, in place
BitAt(a, i) == (a \div (2 ^ i)) % 2
\* bit i of a ^ b, in place
XorAt(a, b, i) == ((BitAt(a, i) + BitAt(b, i)) % 2) * (2 ^ i)
\* bits i..i+3 of a ^ b, in place
Xor4(a, b, i) ==
    (XorAt(a, b, i) + XorAt(a, b, i + 1)) + (XorAt(a, b, i + 2) + XorAt(a, b, i + 3))
\* bitwise exclusive or of two numbers below 2^16
Xor16(a, b) == (Xor4(a, b, 0) + Xor4(a, b, 4)) + (Xor4(a, b, 8) + Xor4(a, b, 12))

Xor(x, y) == <<Xor16(x[1], y[1]), Xor16(x[2], y[2])>>
\* x >> 1
Shr1(x) == <<x[1] \div 2, (x[2] \div 2) + (x[1] % 2) * (Half \div 2)>>
\* the reversed IEEE polynomial 0xEDB88320
IEEEPoly == <<60856, 33568>>
AllOnes == <<Half - 1, Half - 1>>

\* x >> 8
Shr8(x) == <<x[1] \div 256, (x[2] \div 256) + (x[1] % 256) * 256>>

RECURSIVE CrcBits(_, _)
\* k rounds of the bitwise CRC step
CrcBits(crc, k) ==
    IF k = 0 THEN crc
    ELSE IF crc[2] % 2 = 1 THEN CrcBits(Xor(Shr1(crc), IEEEPoly), k - 1)
    ELSE CrcBits(Shr1(crc), k - 1)

\* entry i of the IEEE table
IEEETable(i) == CrcBits(<<0, i>>, 8)

\* crc = IEEETable[byte(crc) ^ b] ^ (crc >> 8)
ByteStep(crc, b) == Xor(IEEETable(Xor16(crc[2] % 256, b)), Shr8(crc))

RECURSIVE CrcUpdate(_, _, _)
\* the checksum state after bytes[i..], starting from crc.  The test of crc
\* has TLC evaluate the accumulator at each byte instead of nesting all of
\* them at the end.
CrcUpdate(crc, bytes, i) ==
    IF i > Len(bytes) \/ crc = <<>> THEN crc
    ELSE CrcUpdate(ByteStep(crc, bytes[i]), bytes, i + 1)

ChecksumIEEE(bytes) == Xor(CrcUpdate(AllOnes, bytes, 1), AllOnes)

\* src/pglocker.go: lockID
lockID(lockName) == ChecksumIEEE(lockName)


(***************************************************************************)
(* Errors.  "nil" is the nil error; ErrBadConn is a transport failure and  *)
(* ServerErr a statement the server refused: neither is ignoreable.        *)
(***************************************************************************)
CtxErrs == {"Canceled", "DeadlineExceeded"}
Errors == {"nil", "Canceled", "DeadlineExceeded", "ErrConnDone", "ErrBadConn",
           "ServerErr"}

ignoreableErrs == {"DeadlineExceeded", "Canceled", "ErrConnDone"}

\* a faulty ignoreErr that ignores every error
ignoreErrAll(err) == "nil"

\* a faulty ignoreErr that ignores nothing
ignoreErrNothing(err) == err

\* ignoreErr returns err unless it is one of ignoreableErrs
ignoreErr(err) == IF err \in ignoreableErrs THEN "nil" ELSE err

\* a faulty line 55 that returns err as getLock gave it
ErrorfUnwrapped(err) == err

\* fmt.Errorf("could not obtain lock: %v", err), never nil: a nil err is
\* printed as <nil>
Errorf(err) == "could not obtain lock: " \o (IF err = "nil" THEN "<nil>" ELSE err)

\* capacity of the channel made by make(chan error, 1)
ErrsCap == 1

PCs == {"idle", "getLock", "waiting", "holding", "unlocking", "send", "done",
        "failed"}

VARIABLES
    keys,       \* the pairs <<name, lockID(name)>>, tabulated once: lockID is
                \* pure, the table never changes
    ctx,        \* ctx[c]: ctx.Err() of the context given to call c
    pc,         \* where call c (and then its goroutine) stands
    lockName,   \* the name call c was given, <<>> before the call
    timeout,    \* opts.timeout of call c
    elapsed,    \* the time since waitForLock of call c began, until it returns
    timer,      \* the time left to the deadline of waitForLock's context
    conn,       \* the session of call c: none, open, dead (ended at the
                \* server, not yet noticed by the client), closed
    owner,      \* the service's table: owner[id] is the call whose session
                \* owns id, 0 when free
    lErr,       \* lErr of the goroutine of call c
    errs,       \* the channel of call c
    ret,        \* what Lock returned to call c
    recvd,      \* the values the caller of c received from the channel
    hist        \* history of call c, read only by the properties

vars == <<keys, ctx, pc, lockName, timeout, elapsed, timer, conn, owner, lErr,
          errs, ret, recvd, hist>>

\* lockID(n), read from the table
IdOf(n) == (CHOOSE p \in keys : p[1] = n)[2]
\* the identifiers in use
IDs == {p[2] : p \in keys}

NoChan == [made |-> FALSE, buf |-> <<>>, closed |-> FALSE]
NoRet == [done |-> FALSE, sig |-> FALSE, err |-> "nil"]
NoHist == [claimReqs |-> 0,       \* claim requests issued
           wait |-> "none",       \* "held" when the identifier was owned as the
                                  \* blocking claim request was issued, "freed"
                                  \* once it then became free before the
                                  \* request's deadline
           cause |-> "none",      \* why Lock failed
           unlockReqs |-> 0,      \* unlock requests issued
           unlockErr |-> "none",  \* what the unlock request returned
           probeErr |-> "nil",    \* the probe error that ended the loop
           sent |-> <<>>]         \* the values sent on the channel

Init ==
    /\ keys = {<<n, lockID(n)>> : n \in Names}
    /\ ctx = [c \in Calls |-> "nil"]
    /\ pc = [c \in Calls |-> "idle"]
    /\ lockName = [c \in Calls |-> <<>>]
    /\ timeout = [c \in Calls |-> 0]
    /\ elapsed = [c \in Calls |-> 0]
    /\ timer = [c \in Calls |-> 0]
    /\ conn = [c \in Calls |-> "none"]
    /\ owner = [i \in IDs |-> 0]
    /\ lErr = [c \in Calls |-> "nil"]
    /\ errs = [c \in Calls |-> NoChan]
    /\ ret = [c \in Calls |-> NoRet]
    /\ recvd = [c \in Calls |-> <<>>]
    /\ hist = [c \in Calls |-> NoHist]

(***************************************************************************)
(* The backing service.                                                    *)
(***************************************************************************)
\* the table once the session of call c has ended: the service releases
\* every identifier the session owned
SessionEnd(o, c) == [i \in IDs |-> IF o[i] = c THEN 0 ELSE o[i]]

\* pg_advisory_unlock(id) on the session of call c
AdvisoryUnlock(o, id, c) == IF o[id] = c THEN [o EXCEPT ![id] = 0] ELSE o

\* hist after the table changed from o to o2: every call still waiting before
\* its deadline whose identifier became free notes it
NoteFreed(h, o, o2) ==
    [c \in Calls |->
        IF /\ pc[c] = "waiting"
           /\ timer[c] > 0
           /\ h[c].wait = "held"
           /\ o[IdOf(lockName[c])] # 0
           /\ o2[IdOf(lockName[c])] = 0
        THEN [h[c] EXCEPT !.wait = "freed"] ELSE h[c]]

(***************************************************************************)
(* Lock, up to its return.                                                 *)
(***************************************************************************)
\* a faulty Lock without the test of line 53
ClaimFailedNever(ok, err) == FALSE

\* a faulty line 53 that does not look at ok
ClaimFailedErrOnly(ok, err) == err # "nil"

\* the test of line 53 on what getLock returned
ClaimFailed(ok, err) == err # "nil" \/ ~ok

\* a faulty line 54 that leaves the session as it is
CloseOnFailureSkipped(cn) == cn

\* the session after line 54, conn.Close()
CloseOnFailure(cn) == "closed"

\* a faulty line 104 that never takes the try-once branch
TryOnceNever(t) == FALSE

\* getLock takes the try-once branch
TryOnce(t) == t = 0

\* a faulty line 120 whose deadline comes one unit too early
WithTimeoutShort(d) == d - 1

\* the time left to the deadline of context.WithTimeout(ctx, d) when it is made
WithTimeout(d) == d

\* calls begin in the order of their numbers
MayBegin(c) == pc[c] = "idle" /\ \A d \in Calls : d < c => pc[d] # "idle"

\* lines 58-80: the channel is made, the goroutine starts, Lock returns it;
\* its options and the time it took are no longer of use
Acquired(c, h) ==
    /\ errs' = [errs EXCEPT ![c] = [made |-> TRUE, buf |-> <<>>, closed |-> FALSE]]
    /\ ret' = [ret EXCEPT ![c] = [done |-> TRUE, sig |-> TRUE, err |-> "nil"]]
    /\ pc' = [pc EXCEPT ![c] = "holding"]
    /\ hist' = h
    /\ timeout' = [timeout EXCEPT ![c] = 0]
    /\ elapsed' = [elapsed EXCEPT ![c] = 0]
    /\ timer' = [timer EXCEPT ![c] = 0]
    /\ UNCHANGED conn

\* lines 54-56: the session is closed and the wrapped error returned; o is the
\* service's table when the request ended
NotAcquired(c, err, o, h, why) ==
    /\ conn' = [conn EXCEPT ![c] = CloseOnFailure(conn[c])]
    /\ owner' = IF conn'[c] = "closed" THEN SessionEnd(o, c) ELSE o
    /\ ret' = [ret EXCEPT ![c] = [done |-> TRUE, sig |-> FALSE, err |-> Errorf(err)]]
    /\ pc' = [pc EXCEPT ![c] = "failed"]
    /\ hist' = NoteFreed([h EXCEPT ![c].cause = why], o, owner')
    /\ timeout' = [timeout EXCEPT ![c] = 0]
    /\ elapsed' = [elapsed EXCEPT ![c] = 0]
    /\ timer' = [timer EXCEPT ![c] = 0]
    /\ UNCHANGED errs

\* lines 52-57 and 58-80: Lock's return once getLock has returned (ok, err),
\* the service's table being o
Returned(c, ok, err, o, h, why) ==
    IF ClaimFailed(ok, err)
    THEN NotAcquired(c, err, o, h, why)
    ELSE /\ owner' = o
         /\ Acquired(c, h)

\* lines 41-50, db.Conn(ctx) fails: the context has ended or the database
\* cannot be reached
LockConnFail(c, n) ==
    /\ MayBegin(c)
    /\ \E e \in (IF ctx[c] # "nil" THEN {ctx[c]} ELSE {"ErrBadConn"}) :
          ret' = [ret EXCEPT ![c] = [done |-> TRUE, sig |-> FALSE, err |-> e]]
    /\ pc' = [pc EXCEPT ![c] = "failed"]
    /\ lockName' = [lockName EXCEPT ![c] = n]
    /\ hist' = [hist EXCEPT ![c].cause = "checkout"]
    /\ UNCHANGED <<keys, ctx, timeout, elapsed, timer, conn, owner, lErr, errs,
                   recvd>>

\* lines 41-50, db.Conn(ctx) returns a dedicated session
LockConn(c, n, t) ==
    /\ MayBegin(c)
    /\ ctx[c] = "nil"
    /\ conn' = [conn EXCEPT ![c] = "open"]
    /\ pc' = [pc EXCEPT ![c] = "getLock"]
    /\ lockName' = [lockName EXCEPT ![c] = n]
    /\ timeout' = [timeout EXCEPT ![c] = t]
    /\ UNCHANGED <<keys, ctx, elapsed, timer, owner, lErr, errs, ret, recvd, hist>>

\* what SELECT pg_try_advisory_lock can answer to call c: ok and err as
\* tryLock returns them, granted when the service gave the session the
\* identifier (it can have done so although the client saw its context end)
TryOutcomes(c) ==
    LET free == owner[IdOf(lockName[c])] = 0 IN
    IF conn[c] # "open"
    THEN {[ok |-> FALSE, err |-> "ErrBadConn", granted |-> FALSE]}
    ELSE IF ctx[c] # "nil"
    THEN {[ok |-> FALSE, err |-> ctx[c], granted |-> g] : g \in {FALSE, free}}
    ELSE {[ok |-> free, err |-> "nil", granted |-> free],
          [ok |-> FALSE, err |-> "ServerErr", granted |-> FALSE]}

\* why a claim request that returned err did not acquire
CauseOf(err) ==
    IF err = "nil" THEN "unavailable"
    ELSE IF err \in CtxErrs THEN "ctx" ELSE "transport"

\* lines 52-57 and 104-117 with timeout = 0: one non-blocking claim request
TryLock(c) ==
    /\ pc[c] = "getLock"
    /\ TryOnce(timeout[c])
    /\ LET id == IdOf(lockName[c])
           h == [hist EXCEPT ![c].claimReqs = @ + 1]
       IN \E r \in TryOutcomes(c) :
            Returned(c, r.ok, r.err,
                     IF r.granted THEN [owner EXCEPT ![id] = c] ELSE owner,
                     h, CauseOf(r.err))
    /\ UNCHANGED <<keys, ctx, lockName, lErr, recvd>>

\* lines 119-122: the blocking claim request is issued under a context that
\* ends timeout from now
WaitStart(c) ==
    /\ pc[c] = "getLock"
    /\ ~TryOnce(timeout[c])
    /\ timer' = [timer EXCEPT ![c] = WithTimeout(timeout[c])]
    /\ pc' = [pc EXCEPT ![c] = "waiting"]
    /\ hist' = [hist EXCEPT ![c].claimReqs = @ + 1,
                            ![c].wait = IF owner[IdOf(lockName[c])] = 0
                                        THEN "none" ELSE "held"]
    /\ UNCHANGED <<keys, ctx, lockName, timeout, elapsed, conn, owner, lErr,
                   errs, ret, recvd>>

\* a faulty waitForLock that drops the error of its request
WaitResultLost(err) == [ok |-> TRUE, err |-> "nil"]

\* a faulty line 120 that derives the request's context from nothing
WaitCtxDetached(c) == "nil"

\* line 120: the request's context is derived from the caller's and ends
\* with it
WaitCtxErr(c) == ctx[c]

\* lines 123-126: what waitForLock returns when its request returned err
WaitResult(err) == [ok |-> err = "nil", err |-> err]

\* lines 122-126 and 58-80: the service grants the identifier before the
\* request's context ends, the request returns without error
WaitGranted(c) ==
    /\ pc[c] = "waiting"
    /\ conn[c] = "open"
    /\ WaitCtxErr(c) = "nil"
    /\ timer[c] > 0
    /\ owner[IdOf(lockName[c])] = 0
    /\ Returned(c, WaitResult("nil").ok, WaitResult("nil").err,
                [owner EXCEPT ![IdOf(lockName[c])] = c], hist, "none")
    /\ UNCHANGED <<keys, ctx, lockName, lErr, recvd>>

\* how a blocked claim request can fail: the error and its cause
WaitFailures(c) ==
    (IF conn[c] # "open" THEN {<<"ErrBadConn", "transport">>}
     ELSE {<<"ServerErr", "transport">>})
    \cup (IF WaitCtxErr(c) # "nil" THEN {<<WaitCtxErr(c), "ctx">>} ELSE {})
    \cup (IF timer[c] = 0 THEN {<<"DeadlineExceeded", "timeout">>} ELSE {})

\* lines 122-125 and 53-57: the blocking claim request fails; when its
\* context ended, the service can have granted the identifier all the same
WaitFail(c) ==
    /\ pc[c] = "waiting"
    /\ LET id == IdOf(lockName[c]) IN
       \E f \in WaitFailures(c) :
       \E granted \in {FALSE, f[2] \in {"ctx", "timeout"} /\ conn[c] = "open"
                                /\ owner[id] = 0} :
            Returned(c, WaitResult(f[1]).ok, WaitResult(f[1]).err,
                     IF granted THEN [owner EXCEPT ![id] = c] ELSE owner,
                     hist, f[2])
    /\ UNCHANGED <<keys, ctx, lockName, lErr, recvd>>

(***************************************************************************)
(* The goroutine of a held lock, lines 60-78.                              *)
(***************************************************************************)
\* a faulty goroutine that leaves the loop without calling releaseLock
IssueUnlockSkipped(c, e, h) ==
    /\ lErr' = [lErr EXCEPT ![c] = e]
    /\ pc' = [pc EXCEPT ![c] = "send"]
    /\ hist' = h

\* line 73 calls releaseLock, which issues the unlock request (line 132)
\* under context.Background()
IssueUnlock(c, e, h) ==
    /\ lErr' = [lErr EXCEPT ![c] = e]
    /\ pc' = [pc EXCEPT ![c] = "unlocking"]
    /\ hist' = [h EXCEPT ![c].unlockReqs = @ + 1]

\* lines 66-68 and 73: the select takes ctx.Done(), the loop ends
LoopCtxDone(c) ==
    /\ pc[c] = "holding"
    /\ ctx[c] # "nil"
    /\ IssueUnlock(c, ctx[c], hist)
    /\ UNCHANGED <<keys, ctx, lockName, timeout, elapsed, timer, conn, owner,
                   errs, ret, recvd>>

\* what conn.PingContext(ctx) can return to call c
PingOutcomes(c) ==
    IF conn[c] = "closed" THEN {"ErrConnDone"}
    ELSE IF conn[c] = "dead" THEN {"ErrBadConn"}
    ELSE IF ctx[c] # "nil" THEN {"nil", ctx[c], "ErrBadConn"}
    ELSE {"nil", "ServerErr"}

\* lines 69-70: the ticker fires and the probe succeeds, the loop goes on
LoopPingOK(c) ==
    /\ pc[c] = "holding"
    /\ "nil" \in PingOutcomes(c)
    /\ UNCHANGED vars

\* lines 69-70 and 73: the ticker fires and the probe fails, the loop ends; a
\* transport failure closes the session, and the service frees what it owned
LoopPingFail(c) ==
    /\ pc[c] = "holding"
    /\ \E e \in PingOutcomes(c) \ {"nil"} :
        /\ conn' = [conn EXCEPT ![c] = IF e = "ErrBadConn" THEN "closed" ELSE @]
        /\ owner' = IF e = "ErrBadConn" THEN SessionEnd(owner, c) ELSE owner
        /\ IssueUnlock(c, e, NoteFreed([hist EXCEPT ![c].probeErr = e], owner, owner'))
    /\ UNCHANGED <<keys, ctx, lockName, timeout, elapsed, timer, errs, ret,
                   recvd>>

\* a faulty releaseLock that issues its request under the caller's context
UnlockOutcomesCallerCtx(c) ==
    IF ctx[c] # "nil" THEN {ctx[c]}
    ELSE IF conn[c] = "closed" THEN {"ErrConnDone"}
    ELSE IF conn[c] = "dead" THEN {"ErrBadConn"}
    ELSE {"nil", "ServerErr"}

\* what SELECT pg_advisory_unlock can return to call c
UnlockOutcomes(c) ==
    IF conn[c] = "closed" THEN {"ErrConnDone"}
    ELSE IF conn[c] = "dead" THEN {"ErrBadConn"}
    ELSE {"nil", "ServerErr"}

\* a faulty goroutine that keeps the cause whatever releaseLock returned
AfterReleaseKept(l, err) == l

\* lines 73-76: lErr once releaseLock has returned err
AfterRelease(l, err) ==
    LET releaseErr == ignoreErr(err) IN
    IF releaseErr # "nil" THEN releaseErr ELSE l

\* lines 132-133 and 73-76: the unlock request returns
UnlockReturn(c) ==
    /\ pc[c] = "unlocking"
    /\ \E e \in UnlockOutcomes(c) :
        /\ conn' = [conn EXCEPT ![c] = IF e = "ErrBadConn" THEN "closed" ELSE @]
        /\ owner' = IF e = "nil"
                    THEN AdvisoryUnlock(owner, IdOf(lockName[c]), c)
                    ELSE owner
        /\ lErr' = [lErr EXCEPT ![c] = AfterRelease(lErr[c], e)]
        /\ hist' = NoteFreed([hist EXCEPT ![c].unlockErr = e], owner, owner')
    /\ pc' = [pc EXCEPT ![c] = "send"]
    /\ UNCHANGED <<keys, ctx, lockName, timeout, elapsed, timer, errs, ret,
                   recvd>>

\* a faulty goroutine that closes the channel without sending
CloseOnly(ch, v) == [ch EXCEPT !.closed = TRUE]

\* the channel after line 77, errs <- v, and the deferred close(errs) of
\* line 61
SendAndClose(ch, v) == [ch EXCEPT !.buf = Append(@, v), !.closed = TRUE]

\* lines 77, 63 and 61: the value is sent, which needs room in the buffer as
\* nobody may be receiving, the ticker is stopped, the channel is closed and
\* the goroutine ends
Deliver(c) ==
    /\ pc[c] = "send"
    /\ Len(errs[c].buf) < ErrsCap
    /\ errs' = [errs EXCEPT ![c] = SendAndClose(@, ignoreErr(lErr[c]))]
    /\ hist' = [hist EXCEPT ![c].sent = errs'[c].buf]
    /\ lErr' = [lErr EXCEPT ![c] = "nil"]
    /\ pc' = [pc EXCEPT ![c] = "done"]
    /\ UNCHANGED <<keys, ctx, lockName, timeout, elapsed, timer, conn, owner, ret,
                   recvd>>

(***************************************************************************)
(* The caller and the environment.                                         *)
(***************************************************************************)
\* the caller receives from the channel Lock returned: the buffered value,
\* or "closed" (the zero value) once the channel is closed and empty
Recv(c) ==
    /\ ret[c].sig
    /\ Len(recvd[c]) < MaxRecv
    /\ \/ /\ errs[c].buf # <<>>
          /\ recvd' = [recvd EXCEPT ![c] = Append(@, Head(errs[c].buf))]
          /\ errs' = [errs EXCEPT ![c].buf = Tail(@)]
       \/ /\ errs[c].buf = <<>>
          /\ errs[c].closed
          /\ recvd' = [recvd EXCEPT ![c] = Append(@, "closed")]
          /\ errs' = errs
    /\ UNCHANGED <<keys, ctx, pc, lockName, timeout, elapsed, timer, conn,
                   owner, lErr, ret, hist>>

\* the caller cancels the context of call c, or its deadline passes, while the
\* call or its goroutine can still read it
CtxEnd(c, e) ==
    /\ ctx[c] = "nil"
    /\ pc[c] \in {"idle", "getLock", "waiting", "holding", "unlocking"}
    /\ ctx' = [ctx EXCEPT ![c] = e]
    /\ UNCHANGED <<keys, pc, lockName, timeout, elapsed, timer, conn, owner,
                   lErr, errs, ret, recvd, hist>>

\* the session of call c ends at the server (the connection is lost) while it
\* is in use or owns its identifier: the service frees what it owned
SessionDies(c) ==
    /\ conn[c] = "open"
    /\ \/ pc[c] \in {"getLock", "waiting", "holding", "unlocking"}
       \/ owner[IdOf(lockName[c])] = c
    /\ conn' = [conn EXCEPT ![c] = "dead"]
    /\ owner' = SessionEnd(owner, c)
    /\ hist' = NoteFreed(hist, owner, owner')
    /\ UNCHANGED <<keys, ctx, pc, lockName, timeout, elapsed, timer, lErr,
                   errs, ret, recvd>>

\* the calls whose blocking claim request has not yet returned
InFlight == {c \in Calls : pc[c] = "waiting"}

\* time passes for the calls in flight
Tick ==
    /\ InFlight # {}
    /\ \A c \in InFlight : elapsed[c] < MaxTime
    /\ elapsed' = [c \in Calls |-> IF c \in InFlight THEN elapsed[c] + 1
                                    ELSE elapsed[c]]
    /\ timer' = [c \in Calls |-> IF pc[c] = "waiting" /\ timer[c] > 0
                                  THEN timer[c] - 1 ELSE timer[c]]
    /\ UNCHANGED <<keys, ctx, pc, lockName, timeout, conn, owner, lErr, errs,
                   ret, recvd, hist>>

Next ==
    \/ \E c \in Calls, n \in Names : LockConnFail(c, n)
    \/ \E c \in Calls, n \in Names, t \in 0..MaxTimeout : LockConn(c, n, t)
    \/ \E c \in Calls : TryLock(c)
    \/ \E c \in Calls : WaitStart(c)
    \/ \E c \in Calls : WaitGranted(c)
    \/ \E c \in Calls : WaitFail(c)
    \/ \E c \in Calls : LoopCtxDone(c)
    \/ \E c \in Calls : LoopPingOK(c)
    \/ \E c \in Calls : LoopPingFail(c)
    \/ \E c \in Calls : UnlockReturn(c)
    \/ \E c \in Calls : Deliver(c)
    \/ \E c \in Calls : Recv(c)
    \/ \E c \in Calls, e \in CtxErrs : CtxEnd(c, e)
    \/ \E c \in Calls : SessionDies(c)
    \/ Tick

Spec == Init /\ [][Next]_vars

\* the goroutine's own steps are taken once they can be: the select of line 66
\* takes ctx.Done() when the context has ended, the send of line 77 has room.
\* Nothing makes the service answer the unlock request: releaseLock waits for
\* it under context.Background(), which never ends
FairSpec ==
    /\ Spec
    /\ \A c \in Calls : /\ WF_vars(LoopCtxDone(c))
                        /\ WF_vars(Deliver(c))

(***************************************************************************)
(* Properties.                                                             *)
(***************************************************************************)
\* call c holds its lock: its claim succeeded on a session that is alive and
\* its unlock request has not been issued
Held(c) == pc[c] = "holding" /\ conn[c] = "open"

\* the identifier of call c, once it has a name
Id(c) == IdOf(lockName[c])

\* Lock returns to call c in this step
Returns(c) == ~ret[c].done /\ ret'[c].done

\* call c was released by its context: the context has ended, and neither the
\* probe nor the unlock request failed with an error that is not ignored
CleanRelease(c) ==
    /\ ctx[c] # "nil"
    /\ hist[c].unlockReqs = 1
    /\ hist[c].probeErr \in ignoreableErrs \cup {"nil"}
    /\ hist[c].unlockErr \in ignoreableErrs \cup {"nil"}

\* the value the signal of call c delivered, when it delivered one
Delivered(c) == hist[c].sent # <<>>

----------------------------------------------------------------------------
\* C1: mutual exclusion.  Of the calls whose names map to the same identifier
\* at most one holds the lock at any moment, and when Lock returns a signal
\* the call's session owns the identifier.
C1_MutualExclusion ==
    /\ [](\A c, d \in Calls :
            Held(c) /\ Held(d) /\ Id(c) = Id(d) => c = d)
    /\ [][\A c \in Calls :
            Returns(c) /\ ret'[c].sig => owner'[Id(c)] = c /\ conn'[c] = "open"]_vars

\* two calls with different names of the same identifier: one holds, the
\* other was refused
C1_Witness ==
    \E c, d \in Calls :
        /\ Held(c)
        /\ lockName[d] # <<>> /\ lockName[d] # lockName[c] /\ Id(c) = Id(d)
        /\ pc[d] = "failed" /\ hist[d].cause = "unavailable"

----------------------------------------------------------------------------
\* C2: a call with timeout = 0 whose identifier is owned by another live
\* session issues exactly one claim request, does not wait, and returns a nil
\* signal with a non-nil error.
C2_TryOnceFails ==
    [][\A c \in Calls :
        /\ pc[c] = "getLock"
        /\ timeout[c] = 0
        /\ owner[Id(c)] \notin {0, c}
        /\ pc'[c] # "getLock"
        => /\ pc'[c] = "failed"
           /\ ret'[c].done /\ ~ret'[c].sig /\ ret'[c].err # "nil"
           /\ hist'[c].claimReqs = 1]_vars

\* a try-once call refused without any transport error while another call
\* holds the same name
C2_Witness ==
    \E c, d \in Calls :
        /\ Held(d) /\ lockName[c] = lockName[d] /\ c # d
        /\ pc[c] = "failed" /\ hist[c].cause = "unavailable"
        /\ hist[c].claimReqs = 1
        /\ ret[c].err = "could not obtain lock: <nil>"

----------------------------------------------------------------------------
----------------------------------------------------------------------------
\* C4, as stated: in every state in which the signal of a call has delivered
\* its value, the call's session no longer owns the identifier.
C4_FreeAfterDelivery ==
    \A c \in Calls : Delivered(c) => owner[Id(c)] # c

----------------------------------------------------------------------------
\* C5, as stated: a blocking call whose identifier was held when its request
\* was issued and became free before the request's deadline does not fail.
C5_WaiterSucceeds ==
    \A c \in Calls : hist[c].wait = "freed" => pc[c] # "failed"

\* C5, amended: a blocking call succeeds only while the identifier is free,
\* its context has not ended and its deadline has not passed; it then owns the
\* identifier and gets a signal and a nil error.  After the holder has let the
\* identifier go in time the call can still fail, but only because its
\* context ended, its deadline passed before the service granted the
\* identifier, or the request failed; and once its own context has ended its
\* signal delivers nil unless the probe or the unlock request failed.
C5_WaiterAfterRelease ==
    /\ [][\A c \in Calls :
            pc[c] = "waiting" /\ pc'[c] = "holding"
            => /\ owner[Id(c)] = 0 /\ owner'[Id(c)] = c
               /\ ctx[c] = "nil" /\ timer[c] > 0
               /\ ret'[c] = [done |-> TRUE, sig |-> TRUE, err |-> "nil"]]_vars
    /\ [][\A c \in Calls :
            pc[c] = "waiting" /\ pc'[c] = "failed" /\ hist[c].wait = "freed"
            => /\ ~ret'[c].sig /\ ret'[c].err # "nil"
               /\ \/ ctx[c] # "nil"
                  \/ timer[c] = 0
                  \/ hist'[c].cause = "transport"]_vars
    /\ [](\A c \in Calls :
            hist[c].wait = "freed" /\ CleanRelease(c) /\ Delivered(c)
            => hist[c].sent = <<"nil">>)

\* a blocking call got the lock after the holder let it go, and released it
C5_Witness ==
    \E c \in Calls :
        /\ hist[c].wait = "freed" /\ ret[c].sig
        /\ CleanRelease(c) /\ hist[c].sent = <<"nil">>

----------------------------------------------------------------------------
\* C6, as stated: a blocking call whose identifier stays held does not return
\* before its timeout has elapsed.
C6_NeverEarly ==
    [][\A c \in Calls :
        pc[c] = "waiting" /\ hist[c].wait = "held" /\ Returns(c)
        => elapsed[c] >= timeout[c]]_vars

\* C6, amended: a blocking call whose identifier is held when it returns
\* fails, with a nil signal and a non-nil error; when it fails by its deadline
\* the timeout has elapsed; it returns earlier only because its context ended
\* or the request failed.
C6_TimesOut ==
    [][\A c \in Calls :
        pc[c] = "waiting" /\ Returns(c)
        => /\ owner[Id(c)] \notin {0, c}
              => pc'[c] = "failed" /\ ~ret'[c].sig /\ ret'[c].err # "nil"
           /\ hist'[c].cause = "timeout" => elapsed[c] >= timeout[c]
           /\ pc'[c] = "failed" /\ elapsed[c] < timeout[c]
              => hist'[c].cause \in {"ctx", "transport"}]_vars

\* a blocking call failed by its deadline while the identifier stayed held
C6_Witness ==
    \E c, d \in Calls :
        /\ pc[c] = "failed" /\ hist[c].cause = "timeout" /\ hist[c].wait = "held"
        /\ Held(d) /\ Id(c) = Id(d)

----------------------------------------------------------------------------
\* C7: the signal of an acquired lock carries at most one value; only the
\* goroutine writes to it and closes it, in its last step; it is closed only
\* with its one value sent, and nothing is sent after it is closed.
C7_OneValue ==
    /\ [](\A c \in Calls :
            /\ Len(hist[c].sent) <= 1
            /\ Len(errs[c].buf) <= ErrsCap
            /\ errs[c].closed => Len(hist[c].sent) = 1
            /\ recvd[c] # <<>> => recvd[c][1] = hist[c].sent[1])
    /\ [][\A c \in Calls :
            /\ errs[c].closed => errs'[c].closed /\ hist'[c].sent = hist[c].sent
            /\ hist'[c].sent # hist[c].sent \/ errs'[c].closed # errs[c].closed
               => pc[c] = "send" /\ pc'[c] = "done"]_vars

\* the caller received the one value and then found the signal closed
C7_Witness ==
    \E c \in Calls :
        /\ errs[c].closed /\ Len(hist[c].sent) = 1
        /\ recvd[c] = <<hist[c].sent[1], "closed">>

----------------------------------------------------------------------------
\* C8: Lock returns either a signal and a nil error or a nil signal and a
\* non-nil error; without a signal no channel is made and no goroutine runs;
\* what Lock returned does not change afterwards.
C8_SignalXorError ==
    /\ [](\A c \in Calls :
            /\ ret[c].done => (ret[c].sig <=> ret[c].err = "nil")
            /\ ret[c].done <=> pc[c] \in {"holding", "unlocking", "send", "done",
                                          "failed"}
            /\ ret[c].sig <=> errs[c].made
            /\ ret[c].sig <=> pc[c] \in {"holding", "unlocking", "send", "done"}
            /\ pc[c] = "failed" => hist[c].unlockReqs = 0 /\ hist[c].sent = <<>>)
    /\ [][\A c \in Calls : ret[c].done => ret'[c] = ret[c]]_vars

\* one call got a signal, another was refused without any transport error
C8_Witness ==
    \E c, d \in Calls :
        /\ ret[c].sig /\ ret[c].err = "nil"
        /\ ret[d].done /\ ~ret[d].sig /\ hist[d].cause = "unavailable"
        /\ hist[c].sent # <<>>

----------------------------------------------------------------------------
\* C9: a call that failed after its session was checked out has closed the
\* session, and the session owns nothing.
C9_ClosedOnFailure ==
    \A c \in Calls :
        pc[c] = "failed" /\ hist[c].cause # "checkout"
        => conn[c] = "closed" /\ \A i \in IDs : owner[i] # c

\* a call whose context ended during its claim request has closed its session
C9_Witness ==
    \E c \in Calls :
        /\ pc[c] = "failed" /\ hist[c].cause = "ctx"
        /\ conn[c] = "closed"

----------------------------------------------------------------------------
\* C10, as stated: in every state in which the signal of a call is closed, the
\* call's session has been closed.
C10_ClosedOnRelease ==
    \A c \in Calls : errs[c].closed => conn[c] = "closed"

----------------------------------------------------------------------------
\* C11, as stated: a call is refused by the service, or made to wait, only
\* because of a call for the same name: whenever a claim request found the
\* identifier owned, a call with the same name had acquired it.
C11_NamesIndependent ==
    \A c \in Calls :
        \/ pc[c] = "failed" /\ hist[c].cause = "unavailable"
        \/ hist[c].wait # "none"
        => \E d \in Calls \ {c} : ret[d].sig /\ lockName[d] = lockName[c]

----------------------------------------------------------------------------
\* C12: the signal never delivers context.DeadlineExceeded, context.Canceled
\* or sql.ErrConnDone; the release error replaces the cause exactly when it is
\* none of these three, and the value sent is nil when the final cause is one
\* of them and the final cause itself otherwise.
C12_Classified ==
    /\ [](\A c \in Calls :
            Delivered(c) => hist[c].sent[1] \notin ignoreableErrs)
    /\ [][\A c \in Calls :
            pc[c] = "unlocking" /\ pc'[c] = "send"
            => lErr'[c] = IF hist'[c].unlockErr \in ignoreableErrs \cup {"nil"}
                          THEN lErr[c] ELSE hist'[c].unlockErr]_vars
    /\ [][\A c \in Calls :
            pc[c] = "send" /\ pc'[c] = "done"
            => hist'[c].sent = <<IF lErr[c] \in ignoreableErrs THEN "nil"
                                 ELSE lErr[c]>>]_vars

\* a probe failed on a lost session, the unlock request found the session
\* closed, and the signal delivered the probe's error
C12_Witness ==
    \E c \in Calls :
        /\ hist[c].probeErr = "ErrBadConn" /\ hist[c].unlockErr = "ErrConnDone"
        /\ hist[c].sent = <<"ErrBadConn">>

----------------------------------------------------------------------------
\* C13: the one claim request of a call has returned before its signal
\* exists; probes are issued only while holding, before the unlock request;
\* the unlock request is issued once, on leaving the loop because the context
\* ended or a probe failed; the value is sent only after the unlock request
\* has returned.
C13_Ordering ==
    /\ [](\A c \in Calls :
            /\ hist[c].claimReqs <= 1 /\ hist[c].unlockReqs <= 1
            /\ errs[c].made => ret[c].done /\ hist[c].claimReqs = 1
            /\ hist[c].unlockReqs = 1 <=> pc[c] \in {"unlocking", "send", "done"}
            /\ hist[c].unlockErr # "none" <=> pc[c] \in {"send", "done"}
            /\ Delivered(c) <=> pc[c] = "done"
            /\ hist[c].probeErr # "nil" => hist[c].unlockReqs = 1
            /\ (ENABLED LoopPingOK(c)) \/ (ENABLED LoopPingFail(c))
               => pc[c] = "holding" /\ hist[c].unlockReqs = 0)
    /\ [][\A c \in Calls :
            hist'[c].unlockReqs # hist[c].unlockReqs
            => /\ pc[c] = "holding" /\ pc'[c] = "unlocking"
               /\ ctx[c] # "nil" \/ hist'[c].probeErr # "nil"]_vars
    /\ [][\A c \in Calls :
            hist'[c].probeErr # hist[c].probeErr => pc[c] = "holding"]_vars

\* a probe failed while the context was alive: the unlock request was issued
\* and returned, then the value was sent
C13_Witness ==
    \E c \in Calls :
        /\ pc[c] = "done" /\ ctx[c] = "nil" /\ hist[c].probeErr = "ServerErr"
        /\ hist[c].claimReqs = 1 /\ hist[c].unlockReqs = 1
        /\ hist[c].unlockErr = "nil" /\ Delivered(c)

----------------------------------------------------------------------------
\* C14: every way out of the loop issues the unlock request, also when the
\* caller's context has ended; the end of the caller's context changes
\* nothing for a request that is under way, which never returns a context
\* error and can still succeed while the session is alive.
C14_IndependentRelease ==
    /\ [](\A c \in Calls :
            /\ hist[c].unlockErr \notin CtxErrs
            /\ pc[c] \in {"send", "done"} => hist[c].unlockReqs = 1
            /\ pc[c] = "unlocking" /\ conn[c] = "open"
               => "nil" \in UnlockOutcomes(c) /\ ENABLED UnlockReturn(c))
    /\ [][\A c \in Calls :
            pc[c] = "holding" /\ pc'[c] # "holding"
            => pc'[c] = "unlocking" /\ hist'[c].unlockReqs = 1]_vars
    /\ [][\A c \in Calls :
            ctx'[c] # ctx[c] => pc'[c] = pc[c] /\ hist'[c] = hist[c]]_vars

\* the caller's context ended while the unlock request was under way, and
\* the request succeeded
C14_Witness ==
    \E c \in Calls :
        /\ pc[c] = "send" /\ hist[c].probeErr = "ServerErr" /\ ctx[c] # "nil"
        /\ hist[c].unlockErr = "nil" /\ owner[Id(c)] = 0

----------------------------------------------------------------------------
\* C15, as stated: once the context of a call that got a signal has ended,
\* the goroutine eventually ends with the signal delivered and closed, whether
\* or not the service answers the unlock request.
C15_ReleaseEnds ==
    \A c \in Calls :
        (ret[c].sig /\ ctx[c] # "nil") ~> (pc[c] = "done" /\ errs[c].closed)

----------------------------------------------------------------------------
\* C16: when the unlock request failed with an error that is not ignored the
\* signal delivers that error, whatever ended the hold; otherwise it delivers
\* the cause that ended the hold, classified: a probe error that is not
\* ignored as it is, nil for the end of the context.
C16_ReleaseSupersedes ==
    \A c \in Calls :
        Delivered(c) =>
            LET r == hist[c].unlockErr
                e == hist[c].probeErr
            IN  /\ r \notin ignoreableErrs \cup {"nil"} => hist[c].sent = <<r>>
                /\ r \in ignoreableErrs \cup {"nil"} =>
                     hist[c].sent = <<IF e \in ignoreableErrs THEN "nil" ELSE e>>

\* a probe failed with one error, the unlock request with another: the
\* signal delivered the unlock request's
C16_Witness ==
    \E c \in Calls :
        /\ hist[c].probeErr = "ServerErr" /\ hist[c].unlockErr = "ErrBadConn"
        /\ hist[c].sent = <<"ErrBadConn">>

----------------------------------------------------------------------------
\* C17, as stated: a probe fails only while holding; the first failure ends
\* the loop, after which no probe is issued and the unlock request is issued
\* once; the signal then eventually delivers a value, whether or not the
\* caller's context ever ends.
C17_ProbeFailureEnds ==
    /\ [][\A c \in Calls :
            hist'[c].probeErr # hist[c].probeErr
            => /\ pc[c] = "holding" /\ hist[c].probeErr = "nil"
               /\ pc'[c] = "unlocking" /\ hist'[c].unlockReqs = 1]_vars
    /\ [](\A c \in Calls :
            hist[c].probeErr # "nil"
            => ~(ENABLED LoopPingOK(c)) /\ ~(ENABLED LoopPingFail(c)))
    /\ \A c \in Calls : hist[c].probeErr # "nil" ~> Delivered(c)

----------------------------------------------------------------------------
\* C18: once the caller's context has ended a blocked claim request can fail
\* with the context's error at once, whatever is left of its timeout, and it
\* cannot succeed any more; Lock then returns a nil signal and a non-nil
\* error, the session is closed and owns nothing from then on.
C18_CancelAbortsWait ==
    /\ [][\A c \in Calls :
            pc[c] = "waiting" /\ ctx[c] # "nil" /\ Returns(c)
            => /\ pc'[c] = "failed" /\ ~ret'[c].sig /\ ret'[c].err # "nil"
               /\ conn'[c] = "closed" /\ owner'[Id(c)] # c]_vars
    /\ [](\A c \in Calls :
            pc[c] = "waiting" /\ ctx[c] # "nil"
            => <<ctx[c], "ctx">> \in WaitFailures(c) /\ ENABLED WaitFail(c))
    /\ [](\A c \in Calls :
            pc[c] = "failed" /\ hist[c].cause = "ctx"
            => conn[c] = "closed" /\ owner[Id(c)] # c /\ ~errs[c].made)

\* a call blocked on a held name returned because its context was cancelled,
\* the name still being held
C18_Witness ==
    \E c, d \in Calls :
        /\ pc[c] = "failed" /\ hist[c].cause = "ctx" /\ hist[c].wait = "held"
        /\ ctx[c] = "Canceled" /\ conn[c] = "closed"
        /\ Held(d) /\ Id(d) = Id(c)

----------------------------------------------------------------------------
\* C19, as stated: the send never waits for a receiver; once the loop has
\* ended the goroutine eventually sends its value, closes the signal and ends,
\* whatever the caller does; a caller that receives twice gets the value and
\* then finds the signal closed.
C19_NoReaderNeeded ==
    /\ [](\A c \in Calls :
            /\ pc[c] = "send" => ENABLED Deliver(c)
            /\ Len(recvd[c]) >= 2
               => recvd[c][1] = hist[c].sent[1] /\ recvd[c][2] = "closed")
    /\ \A c \in Calls :
            pc[c] = "unlocking"
            ~> (pc[c] = "done" /\ errs[c].closed /\ Delivered(c))

----------------------------------------------------------------------------
\* C20, as stated: no two calls for the same identifier have both got a
\* signal while the context of each is alive and neither signal has delivered
\* a value.
C20_HolderToldFirst ==
    \A c, d \in Calls :
        /\ c # d /\ ret[c].sig /\ ret[d].sig /\ Id(c) = Id(d)
        /\ ctx[c] = "nil" /\ ~Delivered(c)
        => ctx[d] # "nil" \/ Delivered(d)

\* C20, amended: a call gets a signal while an earlier holder of the same
\* identifier has not been told only when that holder's session has ended or
\* its unlock request has already succeeded; a holder whose session is alive
\* and whose unlock request has not succeeded shuts every other call out.
C20_TakenOnlyWhenFree ==
    [][\A d \in Calls :
        Returns(d) /\ ret'[d].sig
        => \A c \in Calls \ {d} :
              ret[c].sig /\ Id(c) = Id(d) /\ ~Delivered(c)
              => conn[c] # "open" \/ hist[c].unlockErr = "nil"]_vars

\* the session of a holder died; another call took the lock while the first
\* holder, its context alive, had not been told anything
C20_Witness ==
    \E c, d \in Calls :
        /\ c # d /\ ret[c].sig /\ Held(d) /\ Id(c) = Id(d)
        /\ ctx[c] = "nil" /\ ~Delivered(c) /\ conn[c] = "dead"
        /\ pc[c] = "holding"

=============================================================================
